---------------------------- MODULE Spec2Model ----------------------------
(***************************************************************************)
(* A model of maple, the filtering backend of vim-clap:                    *)
(*   - the filter command (src/src/main.rs, crates/filter/src/lib.rs):     *)
(*     score every input line, collect the matches, sort them, print;      *)
(*   - the exec and grep commands of src/src/main.rs (cmd_output,          *)
(*     execute_impl, try_cache);                                           *)
(*   - grep in synchronous and dynamic mode                                *)
(*     (crates/maple_cli/src/cmd/grep.rs).                                 *)
(*                                                                         *)
(* Conventions.  Option<T> is a sequence of length <= 1: <<>> is None and  *)
(* <<x>> is Some(x).  A string is a sequence of character codes.  Scores   *)
(* are integers: i64 in crates/filter, and in src/main.rs an f64 that the  *)
(* scorers never make NaN, so that partial_cmp(..).unwrap() is total.      *)
(***************************************************************************)
EXTENDS Integers, Sequences, FiniteSets, TLC

\* ------------------------------------------------------------------ bounds
\* most lines a filter input holds
MaxLines == 3
\* scores are drawn from 0..MaxScore
MaxScore == 1
\* result caps are drawn from 0..MaxNumber
MaxNumber == 2
\* most bytes a command writes to its stdout
MaxBytes == 3
\* output thresholds are drawn from 0..MaxThreshold
MaxThreshold == 2

VARIABLES
    \* ---- the filter command
    fpc,            \* position of the filter run
    input_given,    \* Cmd::Filter.input is Some: read a file, score in parallel
    input,          \* the lines of the source; input[i] says whether line i is readable
    scorer,         \* the scorer closure for the run's query and algo: line -> Option<(score, indices)>
    unstable_order, \* how this build's unstable sort arranges the elements it is handed
    pending,        \* lines whose scoring task has not completed
    collected,      \* the Vec being collected: <<line number, (text, score, indices)>>
    ranked,         \* the Vec `ranked`
    \* ---- every command
    stdout,         \* the JSON records printed so far
    number,         \* Maple.number
    enable_icon,    \* Maple.enable_icon
    status,         \* exit status of the process: "running", "ok", "error"
    \* ---- the exec and grep commands of src/main.rs
    epc,            \* position of the run: "start", "have_output", "exited", "done"
    command,        \* the subcommand: "exec" or "grep"
    output,         \* Cmd::Exec.output
    output_threshold, \* Cmd::Exec.output_threshold
    proc,           \* what cmd.output() returned
    persist,        \* what became of the caching step: "none", "written", "failed"
    files,          \* the files written: path -> bytes
    \* ---- grep --sync (crates/maple_cli/src/cmd/grep.rs)
    gpc,            \* position of the run: "start", "done"
    grep_cmd,       \* Grep.grep_cmd
    winwidth,       \* Params.winwidth
    execute_info,   \* what light_cmd.execute(&args) returned: Some(lines), or None for Err
    \* ---- grep in dynamic mode
    dpc,            \* position of the run: "start", "streaming", "draining", "done", "cancelled"
    subcommand,     \* "grep" (Grep::dyn_run) or "forerunner" (RipGrepForerunner::run)
    dyn_input,      \* Grep.input
    cmd_dir,        \* Grep.cmd_dir
    no_cache,       \* Params.no_cache
    cache_entry,    \* the cache holds an entry for (RG_ARGS, cmd_dir)
    lookups,        \* how many times cache_exists was called
    source,         \* the Source handed to the filter: "none", "file", "cached", "exec"
    child,          \* the process of an exec source: "none", "running", "exited", "killed"
    consumed,       \* how many items were read from the source
    inflight,       \* the scoring tasks in flight: <<item, Option<score>>>
    topk,           \* the running top-K: <<item, score>>, best first
    dyn_total,      \* how many items matched so far
    snapshots,      \* the snapshots emitted: [total, top]
    cancelled       \* the runner was cancelled

filterVars == <<fpc, input_given, input, scorer, unstable_order, pending, collected, ranked>>

mapleVars == <<stdout, number, enable_icon, status>>

execVars == <<epc, command, output, output_threshold, proc, persist, files>>

grepVars == <<gpc, grep_cmd, winwidth, execute_info>>

dynVars == <<dpc, subcommand, dyn_input, cmd_dir, no_cache, cache_entry, lookups, source, child,
             consumed, inflight, topk, dyn_total, snapshots, cancelled>>

vars == <<filterVars, mapleVars, execVars, grepVars, dynVars>>

\* What a command leaves alone: the state of the other commands.
notFilter == <<execVars, grepVars, dynVars>>
notExec == <<filterVars, grepVars, dynVars>>
notGrep == <<filterVars, execVars, dynVars>>
notDyn == <<filterVars, execVars, grepVars>>

\* ------------------------------------------------------------- Option<T>
None == <<>>
Some(x) == <<x>>
IsSome(o) == o # <<>>
Unwrap(o) == o[1]

Min(a, b) == IF a <= b THEN a ELSE b

\* ------------------------------------------------------------ the lines
Readable == "utf8"
Unreadable == "invalid"

\* The text of source line i: every line of an input is a different string.
Text(i) == <<i>>

\* The matched positions the scorer reports for line i.
PositionsOf(i) == <<i - 1>>

Scores == 0..MaxScore

\* icon::prepend_icon: the line behind an icon and a space.
prepend_icon(line) == <<0, 32>> \o line

\* ------------------------------------------------- scoring one source line
\* The closure handed to filter_map: the scored tuple of line i, or None.
ScoreLine(i) ==
    IF IsSome(scorer[i])
    THEN Some(<<Text(i), Unwrap(scorer[i])[1], Unwrap(scorer[i])[2]>>)
    ELSE None

\* The lines of the input that match, in source order.
RECURSIVE MatchesFrom(_)
MatchesFrom(i) ==
    IF i > Len(input) THEN <<>>
    ELSE IF input[i] = Readable /\ IsSome(scorer[i])
         THEN <<Unwrap(ScoreLine(i))>> \o MatchesFrom(i + 1)
         ELSE MatchesFrom(i + 1)

NumMatches == Len(MatchesFrom(1))

\* A collect that would take the items in the order the tasks complete.
CollectInCompletionOrder(acc, i, item) == Append(acc, <<i, item>>)

\* collect::<Vec<_>>() of a parallel iterator: the item of line i takes its
\* place by source position, whenever its task completes.
ParCollect(acc, i, item) ==
    LET before == SelectSeq(acc, LAMBDA e : e[1] < i)
        after == SelectSeq(acc, LAMBDA e : e[1] > i)
    IN before \o <<<<i, item>>>> \o after

\* ----------------------------------------------------------- the sort
\* The comparator with its operands exchanged: v1.partial_cmp(&v2).
CompareAscending(a, b) ==
    IF a[2] < b[2] THEN "Less" ELSE IF a[2] > b[2] THEN "Greater" ELSE "Equal"

\* The comparator |(_, v1, _), (_, v2, _)| v2.partial_cmp(&v1).unwrap()
Compare(a, b) ==
    IF b[2] < a[2] THEN "Less" ELSE IF b[2] > a[2] THEN "Greater" ELSE "Equal"

\* par_sort_unstable_by: the slice ordered by the comparator.  The sort is
\* unstable: elements that compare Equal come out in an arrangement the
\* library does not specify.  It is a function of the slice alone (the
\* pivots are chosen without a random source, and the parallel halves work on
\* disjoint sub-slices), so it is given as `order`, a permutation of the
\* slice's positions that is fixed for the run and may be any.
ParSortUnstableBy(v, order) ==
    LET n == Len(v)
        Before(j, i) == \/ Compare(v[j], v[i]) = "Less"
                        \/ Compare(v[j], v[i]) = "Equal" /\ order[j] < order[i]
        Rank(i) == 1 + Cardinality({j \in 1..n : Before(j, i)})
    IN [k \in 1..n |-> v[CHOOSE i \in 1..n : Rank(i) = k]]

\* ------------------------------------------------------- printing results
\* A take that would be off by one.
TakeOneMore(v, n) == SubSeq(v, 1, Min(n + 1, Len(v)))

\* ranked.into_iter().take(number)
Take(v, n) == SubSeq(v, 1, Min(n, Len(v)))

\* A total that would be counted after the truncation.
TotalAfterTake(v, n) == Len(Take(v, n))

\* let total = ranked.len();
FilterTotal(v, n) == Len(v)

\* lines.push(..) for each tuple of the payload
DisplayLine(text, icon) == IF icon THEN prepend_icon(text) ELSE text

\* The record println_json!(total, lines, indices) prints.
FilterRecord(v, n, icon) ==
    LET payload == Take(v, n)
    IN [total |-> FilterTotal(v, n),
        lines |-> [k \in 1..Len(payload) |-> DisplayLine(payload[k][1], icon)],
        indices |-> [k \in 1..Len(payload) |-> payload[k][3]]]

\* The records println_json!(text, indices) prints, one for each tuple.
FilterLines(v) == [k \in 1..Len(v) |-> [text |-> v[k][1], indices |-> v[k][3]]]

\* A command that is not the one being run.
FilterOff ==
    /\ fpc = "off"
    /\ input_given = FALSE
    /\ input = <<>>
    /\ scorer = <<>>
    /\ unstable_order = <<>>
    /\ pending = {}
    /\ collected = <<>>
    /\ ranked = <<>>

ExecOff ==
    /\ epc = "off"
    /\ command = "filter"
    /\ output = None
    /\ output_threshold = 0
    /\ proc = <<>>
    /\ persist = "none"
    /\ files = {}

GrepOff ==
    /\ gpc = "off"
    /\ grep_cmd = None
    /\ winwidth = None
    /\ execute_info = None

DynOff ==
    /\ dpc = "off"
    /\ subcommand = "none"
    /\ dyn_input = None
    /\ cmd_dir = None
    /\ no_cache = FALSE
    /\ cache_entry = FALSE
    /\ lookups = 0
    /\ source = "none"
    /\ child = "none"
    /\ consumed = 0
    /\ inflight = {}
    /\ topk = <<>>
    /\ dyn_total = 0
    /\ snapshots = <<>>
    /\ cancelled = FALSE

\* ------------------------------------------------ the filter command
\* What a source line may be: not valid UTF-8, or text the scorer maps to
\* None or to a score.
LineKinds == {<<"invalid">>, <<"nomatch">>} \cup {<<"score", s>> : s \in Scores}

FilterInit ==
    /\ fpc = "start"
    /\ input_given \in BOOLEAN
    /\ \E n \in 0..MaxLines : \E kind \in [1..n -> LineKinds] :
          /\ input = [i \in 1..n |-> IF kind[i][1] = "invalid" THEN Unreadable ELSE Readable]
          /\ scorer = [i \in 1..n |-> IF kind[i][1] = "score"
                                      THEN Some(<<kind[i][2], PositionsOf(i)>>)
                                      ELSE None]
    /\ unstable_order \in Permutations(1..NumMatches)
    /\ pending = 1..Len(input)
    /\ collected = <<>>
    /\ ranked = <<>>
    /\ stdout = <<>>
    /\ number = None
    /\ enable_icon = FALSE
    /\ status = "running"
    /\ ExecOff
    /\ GrepOff
    /\ DynOff

\* std::fs::read_to_string(input)?: the whole file, or the run fails.
ReadToString ==
    /\ fpc = "start"
    /\ input_given
    /\ IF \E i \in 1..Len(input) : input[i] = Unreadable
       THEN fpc' = "failed" /\ status' = "error"
       ELSE fpc' = "scoring" /\ status' = status
    /\ UNCHANGED <<input_given, input, scorer, unstable_order, pending, collected,
                   ranked, stdout, number, enable_icon, notFilter>>

\* One task of par_lines().filter_map(..): the tasks complete in any order.
ScoreTask(i) ==
    /\ fpc = "scoring"
    /\ i \in pending
    /\ pending' = pending \ {i}
    /\ collected' = IF IsSome(ScoreLine(i))
                    THEN ParCollect(collected, i, Unwrap(ScoreLine(i)))
                    ELSE collected
    /\ UNCHANGED <<fpc, input_given, input, scorer, unstable_order, ranked,
                   mapleVars, notFilter>>

\* One item of io::stdin().lock().lines().filter_map(..): the lines come in
\* order, and a line that cannot be read is dropped by lines_iter.ok().
StdinLine ==
    /\ fpc = "start"
    /\ ~input_given
    /\ pending # {}
    /\ LET i == CHOOSE j \in pending : \A k \in pending : j <= k
       IN /\ pending' = pending \ {i}
          /\ collected' = IF input[i] = Readable /\ IsSome(ScoreLine(i))
                          THEN Append(collected, <<i, Unwrap(ScoreLine(i))>>)
                          ELSE collected
    /\ UNCHANGED <<fpc, input_given, input, scorer, unstable_order, ranked,
                   mapleVars, notFilter>>

\* The Vec the iterator collected.
CollectedVec == [k \in 1..Len(collected) |-> collected[k][2]]

\* ranked.par_sort_unstable_by(..) once every item is collected.
Sort ==
    /\ \/ fpc = "scoring"
       \/ fpc = "start" /\ ~input_given
    /\ pending = {}
    /\ ranked' = ParSortUnstableBy(CollectedVec, unstable_order)
    /\ fpc' = "ranked"
    /\ UNCHANGED <<input_given, input, scorer, unstable_order, pending, collected,
                   mapleVars, notFilter>>

\* Maple::run, Cmd::Filter, after the ranking: the arguments --number and
\* --enable-icon are first read here.
PrintFilter ==
    /\ fpc = "ranked"
    /\ \E num \in {None} \cup {Some(k) : k \in 0..MaxNumber} : \E icon \in BOOLEAN :
          /\ number' = num
          /\ enable_icon' = icon
          /\ stdout' = IF IsSome(num)
                       THEN <<FilterRecord(ranked, Unwrap(num), icon)>>
                       ELSE FilterLines(ranked)
    /\ fpc' = "done"
    /\ status' = "ok"
    /\ UNCHANGED <<input_given, input, scorer, unstable_order, pending, collected, ranked,
                   notFilter>>

FilterNext ==
    \/ ReadToString
    \/ \E i \in 1..MaxLines : ScoreTask(i)
    \/ StdinLine
    \/ Sort
    \/ PrintFilter

Spec == FilterInit /\ [][FilterNext]_vars

\* ------------------------------------------------------------- claims
\* The number of candidates the matcher matched.
MatchCount == Cardinality({i \in 1..Len(input) : input[i] = Readable /\ IsSome(scorer[i])})

Sorted(v) == \A k \in 1..(Len(v) - 1) : v[k][2] >= v[k + 1][2]

\* C1: the list the batch ranker returns is ordered by non-increasing score:
\* each result's score is at least the score of the result after it.
C1_RankedByDescendingScore ==
    fpc \in {"ranked", "done"} => Sorted(ranked)

C1_Witness ==
    /\ fpc = "ranked"
    /\ Len(ranked) >= 2
    /\ \E k \in 1..(Len(ranked) - 1) : ranked[k][2] > ranked[k + 1][2]
    /\ collected[1][2][2] < collected[Len(collected)][2][2]

\* The matches sorted by descending score with ties left in source order.
StableRanking ==
    ParSortUnstableBy(MatchesFrom(1), [i \in 1..NumMatches |-> i])

\* C2: matches with equal scores keep the relative order they had in the
\* source (the sort is stable).
C2_TiesKeepSourceOrder ==
    fpc \in {"ranked", "done"} => ranked = StableRanking

\* C3: with a result cap, the reported total is the number of candidates
\* the matcher matched, whatever the cap.
C3_TotalIsMatchCount ==
    (fpc = "done" /\ IsSome(number)) =>
        /\ Len(stdout) = 1
        /\ stdout[1].total = MatchCount

C3_Witness ==
    /\ fpc = "done"
    /\ IsSome(number)
    /\ Unwrap(number) < MatchCount
    /\ MatchCount < Len(input)
    /\ stdout[1].total = MatchCount

\* C4: with a result cap N, lines are the display strings of the first
\* min(N, total) ranked entries in order (the entry's text, behind an icon
\* when icons are enabled), and indices is as long as lines, indices[i] being
\* the matched positions the scorer reported for the entry of lines[i].
C4_LinesAreRankedPrefix ==
    (fpc = "done" /\ IsSome(number)) =>
        LET rec == stdout[1]
            n == Min(Unwrap(number), rec.total)
        IN /\ Len(rec.lines) = n
           /\ Len(rec.indices) = Len(rec.lines)
           /\ \A k \in 1..n :
                 /\ rec.lines[k] = DisplayLine(ranked[k][1], enable_icon)
                 /\ rec.indices[k] = ranked[k][3]
                 /\ \E i \in 1..Len(input) :
                       /\ Text(i) = ranked[k][1]
                       /\ IsSome(scorer[i])
                       /\ rec.indices[k] = Unwrap(scorer[i])[2]

C4_Witness ==
    /\ fpc = "done"
    /\ IsSome(number)
    /\ Unwrap(number) >= 1
    /\ Unwrap(number) < Len(ranked)
    /\ Len(stdout[1].lines) = Unwrap(number)
    /\ enable_icon

\* C10: the ranked list does not depend on the order in which the scoring
\* tasks complete: it is the sort of the matches taken in source order.
C10_RankingIndependentOfCompletionOrder ==
    fpc \in {"ranked", "done"} =>
        ranked = ParSortUnstableBy(MatchesFrom(1), unstable_order)

C10_Witness ==
    /\ fpc = "ranked"
    /\ input_given
    /\ Len(ranked) >= 2
    /\ ranked[1][2] = ranked[2][2]

\* ------------------------------------------ the exec and grep commands
\* b'\n'
NL == 10

\* The bytes of a command's output: a newline, a letter, and a byte that is
\* not valid UTF-8.
Bytes == {NL, 97, 255}

ByteStrings == UNION {[1..n -> Bytes] : n \in 0..MaxBytes}

\* What a command may leave on its stderr.
StderrTexts == {<<>>, <<97>>, <<255>>}

\* String::from_utf8_lossy: an invalid byte becomes U+FFFD.
from_utf8_lossy(bytes) ==
    [k \in 1..Len(bytes) |-> IF bytes[k] = 255 THEN 65533 ELSE bytes[k]]

\* bytecount::count(cmd_stdout, b'\n')
CountNewlines(bytes) == Cardinality({k \in 1..Len(bytes) : bytes[k] = NL})

\* str::split('\n'): the pieces between the newlines, the last one included.
RECURSIVE SplitFrom(_, _)
SplitFrom(str, piece) ==
    IF str = <<>> THEN <<piece>>
    ELSE IF Head(str) = NL
         THEN <<piece>> \o SplitFrom(Tail(str), <<>>)
         ELSE SplitFrom(Tail(str), Append(piece, Head(str)))

Split(str) == SplitFrom(str, <<>>)

\* icon::DEFAULT_ICONIZED: what prepend_icon makes of the empty line.
DEFAULT_ICONIZED == prepend_icon(<<>>)

\* trim_trailing: remove the last element if it is the empty string.
trim_trailing(lines) ==
    IF lines # <<>> /\ (lines[Len(lines)] = <<>> \/ lines[Len(lines)] = DEFAULT_ICONIZED)
    THEN SubSeq(lines, 1, Len(lines) - 1)
    ELSE lines

\* truncate_stdout: the top `n` lines of the stdout bytestream.
truncate_stdout(bytes, n) == trim_trailing(Take(Split(from_utf8_lossy(bytes)), n))

\* A test that would take every failed status for an error.
AnyFailureIsError(o) == ~o.success

\* cmd_output: a failed status with something on stderr is an error.
CommandFailed(o) == ~o.success /\ o.stderr # <<>>

\* tempfile(args): a path in the temp dir, named after args and the time.
TempPath == "temp_dir/args_secs"
OutputPath == "output"

\* A spill already when the line count reaches the threshold.
CacheWantedAtThreshold(total, threshold) == threshold # 0 /\ total >= threshold

\* try_cache spills the output: output_threshold != 0 && total > output_threshold
CacheWanted(total, threshold) == threshold # 0 /\ total > threshold

\* try_cache: Ok((stdout_str, tempfile)) or the error of tempfile() or of
\* File::create(..)?.write_all(..)?.  clock_ok: SystemTime::now() is not
\* before the epoch; create_ok: the file can be created; written: the number
\* of bytes write_all wrote, all of them when it succeeds.  file: what the
\* call left on disk.
try_cache(bytes, total, out, threshold, clock_ok, create_ok, written) ==
    LET path == IF IsSome(out) THEN Unwrap(out) ELSE TempPath
    IN IF CacheWanted(total, threshold)
       THEN IF (out = None /\ ~clock_ok) \/ ~create_ok
            THEN [ok |-> FALSE, str |-> <<>>, tempfile |-> None, file |-> None]
            ELSE IF written < Len(bytes)
            THEN [ok |-> FALSE, str |-> <<>>, tempfile |-> None,
                  file |-> Some([path |-> path, bytes |-> SubSeq(bytes, 1, written)])]
            ELSE [ok |-> TRUE, str |-> from_utf8_lossy(bytes), tempfile |-> Some(path),
                  file |-> Some([path |-> path, bytes |-> bytes])]
       ELSE [ok |-> TRUE, str |-> from_utf8_lossy(bytes), tempfile |-> None, file |-> None]

\* The lines execute_impl prints when no --number is given.
DisplayLines(str, icon) ==
    LET pieces == Split(str)
    IN trim_trailing([k \in 1..Len(pieces) |-> DisplayLine(pieces[k], icon)])

ExecInit ==
    /\ FilterOff
    /\ GrepOff
    /\ DynOff
    /\ epc = "start"
    /\ command \in {"exec", "grep"}
    /\ number \in {None} \cup {Some(k) : k \in 0..MaxNumber}
    /\ enable_icon \in BOOLEAN
    \* Cmd::Grep runs execute_impl(&mut cmd, &args, &None, 0usize)
    /\ IF command = "exec"
       THEN output \in {None, Some(OutputPath)} /\ output_threshold \in 0..MaxThreshold
       ELSE output = None /\ output_threshold = 0
    /\ proc = None
    /\ persist = "none"
    /\ files = {}
    /\ stdout = <<>>
    /\ status = "running"

\* cmd_output: run the command to its end; on a failure with stderr print
\* the error and exit(1).
CmdOutput ==
    /\ epc = "start"
    /\ \/ \* cmd.output()? fails: the command cannot be run
          /\ epc' = "done"
          /\ status' = "error"
          /\ UNCHANGED <<proc, stdout>>
       \/ \E ok \in BOOLEAN, err \in StderrTexts, out \in ByteStrings :
             LET o == [success |-> ok, stderr |-> err, stdout |-> out]
             IN /\ proc' = Some(o)
                /\ IF CommandFailed(o)
                   THEN /\ stdout' = <<[error |-> from_utf8_lossy(err)]>>
                        /\ status' = "error"
                        /\ epc' = "exited"
                   ELSE /\ epc' = "have_output"
                        /\ UNCHANGED <<stdout, status>>
    /\ UNCHANGED <<command, output, output_threshold, persist, files, number,
                   enable_icon, notExec>>

\* execute_impl with the output of the command in hand.
ExecuteImpl ==
    /\ epc = "have_output"
    /\ epc' = "done"
    /\ LET cmd_stdout == Unwrap(proc).stdout
           total == CountNewlines(cmd_stdout)
       IN IF IsSome(number)
          THEN /\ stdout' = <<[total |-> total,
                               lines |-> truncate_stdout(cmd_stdout, Unwrap(number))]>>
               /\ status' = "ok"
               /\ UNCHANGED <<persist, files>>
          ELSE \E clock_ok \in BOOLEAN, create_ok \in BOOLEAN,
                    written \in 0..Len(cmd_stdout) :
                 LET r == try_cache(cmd_stdout, total, output, output_threshold,
                                    clock_ok, create_ok, written)
                 IN /\ files' = files \cup {r.file[k] : k \in 1..Len(r.file)}
                    /\ IF ~r.ok
                       THEN /\ persist' = "failed"
                            /\ status' = "error"
                            /\ UNCHANGED stdout
                       ELSE /\ status' = "ok"
                            /\ IF IsSome(r.tempfile)
                               THEN /\ persist' = "written"
                                    /\ stdout' = <<[total |-> total,
                                                    lines |-> DisplayLines(r.str, enable_icon),
                                                    tempfile |-> Unwrap(r.tempfile)]>>
                               ELSE /\ UNCHANGED persist
                                    /\ stdout' = <<[total |-> total,
                                                    lines |-> DisplayLines(r.str, enable_icon)]>>
    /\ UNCHANGED <<command, output, output_threshold, proc, number, enable_icon,
                   notExec>>

ExecNext ==
    \/ CmdOutput
    \/ ExecuteImpl

SpecExec == ExecInit /\ [][ExecNext]_vars

\* A record with total and lines was printed.
ResultRecordPrinted ==
    /\ Len(stdout) = 1
    /\ {"total", "lines"} \subseteq DOMAIN stdout[1]

ErrorRecordPrinted == \E k \in 1..Len(stdout) : "error" \in DOMAIN stdout[k]

\* C5: a command that exits non-zero with something on stderr makes the run
\* print one error record carrying the stderr text and exit non-zero with no
\* lines record; a non-zero exit with an empty stderr is no error: nothing is
\* printed for it, the run goes on, and it ends with the result record (or,
\* without --number and above the threshold, as the caching step ends).
C5_NonZeroExitWithStderrIsError ==
    IsSome(proc) =>
        /\ (~Unwrap(proc).success /\ Unwrap(proc).stderr # <<>>) =>
              /\ stdout = <<[error |-> from_utf8_lossy(Unwrap(proc).stderr)]>>
              /\ status = "error"
              /\ epc = "exited"
        /\ (~Unwrap(proc).success /\ Unwrap(proc).stderr = <<>>) =>
              /\ ~ErrorRecordPrinted
              /\ epc \in {"have_output", "done"}
              /\ epc = "have_output" => status = "running"
              /\ epc = "done" =>
                    \/ status = "ok" /\ ResultRecordPrinted
                    \/ /\ persist = "failed"
                       /\ number = None
                       /\ CacheWanted(CountNewlines(Unwrap(proc).stdout), output_threshold)

C5_Witness ==
    /\ epc = "exited"
    /\ ~Unwrap(proc).success
    /\ Unwrap(proc).stderr = <<97>>
    /\ Unwrap(proc).stdout # <<>>
    /\ stdout = <<[error |-> <<97>>]>>

\* C6: a failure to persist the command output never fails the run: the run
\* succeeds and prints the result record with total and lines.
C6_CacheFailureDoesNotFailRun ==
    (epc = "done" /\ persist = "failed") => (status = "ok" /\ ResultRecordPrinted)

\* The run went through execute_impl with the output of the command.
CommandRunEnded == epc = "done" /\ IsSome(proc)

\* The printed record carries `tempfile`.
TempfileReported == Len(stdout) = 1 /\ "tempfile" \in DOMAIN stdout[1]

\* The whole output of the command is in the file the record names.
PersistedAndReported ==
    /\ TempfileReported
    /\ [path |-> stdout[1].tempfile, bytes |-> Unwrap(proc).stdout] \in files

\* No cap, a non-zero threshold, and more lines than the threshold.
UncappedOverThreshold ==
    /\ number = None
    /\ output_threshold # 0
    /\ CountNewlines(Unwrap(proc).stdout) > output_threshold

\* C12 as stated: a command run persists its full output and reports
\* `tempfile` if and only if no cap is set, the threshold is non-zero and
\* total is greater than the threshold; a capped run and the grep subcommand
\* never write a file and never report `tempfile`.
C12_PersistsIffOverThreshold ==
    /\ CommandRunEnded => (PersistedAndReported <=> UncappedOverThreshold)
    /\ (IsSome(number) \/ command = "grep") => (files = {} /\ ~TempfileReported)

\* C12 amended: a file is written or `tempfile` reported only by an uncapped
\* run with a non-zero threshold below total; such a run either persists its
\* full output and reports `tempfile` with the result record, or creating or
\* writing the file fails and the run ends in an error with nothing printed;
\* a capped run and the grep subcommand never write a file and never report
\* `tempfile`.
C12_PersistsOnlyOverThreshold ==
    /\ (files # {} \/ TempfileReported) => (CommandRunEnded /\ UncappedOverThreshold)
    /\ (CommandRunEnded /\ UncappedOverThreshold) =>
          \/ /\ PersistedAndReported
             /\ ResultRecordPrinted
             /\ status = "ok"
          \/ /\ ~TempfileReported
             /\ \A f \in files : f.bytes # Unwrap(proc).stdout
             /\ stdout = <<>>
             /\ status = "error"
    /\ (IsSome(number) \/ command = "grep") => (files = {} /\ ~TempfileReported)

C12_Witness ==
    /\ CommandRunEnded
    /\ command = "exec"
    /\ output_threshold = 1
    /\ CountNewlines(Unwrap(proc).stdout) = 2
    /\ PersistedAndReported
    /\ stdout[1].total = 2

\* ------------------------------------------------------- grep --sync
\* most lines the grep command prints
MaxGrepLines == 3

\* winwidth.unwrap_or(80)
DefaultWinWidth == 80

\* A line of the output of rg --json: one that does not parse as a JsonLine,
\* or a match whose grep line is `len` characters long with the match at
\* column `col`.
GrepLineLengths == {2, 5, DefaultWinWidth + 1}

OutputLines ==
    {<<"other">>} \cup
    {<<"match", len, col>> : len \in GrepLineLengths, col \in {0, 1}}

\* serde_json::from_str::<JsonLine>(s).ok()
ParseJsonLine(s) == IF s[1] = "match" THEN Some(s) ELSE None

\* JsonLine::build_grep_line(enable_icon): the line and its indices.
build_grep_line(j, icon) ==
    <<DisplayLine([k \in 1..j[2] |-> 97], icon), <<j[3] + (IF icon THEN 2 ELSE 0)>>>>

\* A map that would keep the lines that do not parse, as empty lines.
KeepEveryLine(raw, icon) ==
    [k \in 1..Len(raw) |->
        IF raw[k][1] = "match" THEN build_grep_line(raw[k], icon) ELSE <<<<>>, <<>>>>]

\* The lines of execute_info that parse, built: filter_map(..).map(..)
ParsedGrepLines(raw, icon) ==
    LET parsed == SelectSeq(raw, LAMBDA s : IsSome(ParseJsonLine(s)))
    IN [k \in 1..Len(parsed) |-> build_grep_line(Unwrap(ParseJsonLine(parsed[k])), icon)]

\* printer::truncate_grep_lines: every line bounded to the display width;
\* the map gives, for the position of each line it cut, the original line.
truncate_grep_lines(built, width, skipped) ==
    LET reserved == IF IsSome(skipped) THEN Unwrap(skipped) ELSE 0
        Cut(l) == Len(l[1]) > width
        Keep(l) == IF Cut(l)
                   THEN <<SubSeq(l[1], 1, reserved) \o SubSeq(l[1], reserved + 1, width),
                          SelectSeq(l[2], LAMBDA i : i < width)>>
                   ELSE l
    IN [lines |-> [k \in 1..Len(built) |-> Keep(built[k])[1]],
        indices |-> [k \in 1..Len(built) |-> Keep(built[k])[2]],
        truncated_map |-> {<<k, built[k][1]>> : k \in {i \in 1..Len(built) : Cut(built[i])}}]

GrepInit ==
    /\ FilterOff
    /\ ExecOff
    /\ DynOff
    /\ gpc = "start"
    /\ grep_cmd \in {None, Some("rg")}
    /\ winwidth \in {None, Some(4)}
    /\ number \in {None} \cup {Some(k) : k \in 0..MaxNumber}
    /\ enable_icon \in BOOLEAN
    /\ execute_info = None
    /\ stdout = <<>>
    /\ status = "running"

\* Grep::sync_run
GrepSyncRun ==
    /\ gpc = "start"
    /\ gpc' = "done"
    /\ IF grep_cmd = None
       THEN \* .context("--grep-cmd is required when --sync is on")?
            /\ status' = "error"
            /\ UNCHANGED <<execute_info, stdout>>
       ELSE \/ \* light_cmd.execute(&args)? fails
               /\ status' = "error"
               /\ UNCHANGED <<execute_info, stdout>>
            \/ \E n \in 0..MaxGrepLines : \E raw \in [1..n -> OutputLines] :
                  LET built == ParsedGrepLines(raw, enable_icon)
                      total == Len(built)
                      t == truncate_grep_lines(built,
                               IF IsSome(winwidth) THEN Unwrap(winwidth) ELSE DefaultWinWidth,
                               IF enable_icon THEN Some(2) ELSE None)
                  IN /\ execute_info' = Some(raw)
                     /\ status' = "ok"
                     /\ stdout' = IF t.truncated_map = {}
                                  THEN <<[total |-> total, lines |-> t.lines,
                                          indices |-> t.indices]>>
                                  ELSE <<[total |-> total, lines |-> t.lines,
                                          indices |-> t.indices,
                                          truncated_map |-> t.truncated_map]>>
    /\ UNCHANGED <<grep_cmd, winwidth, number, enable_icon, notGrep>>

GrepNext == GrepSyncRun

SpecGrep == GrepInit /\ [][GrepNext]_vars

\* The lines of the command's output that parse as a structured line.
ParsableCount ==
    Cardinality({k \in 1..Len(Unwrap(execute_info)) : Unwrap(execute_info)[k][1] = "match"})

\* C9: in synchronous grep mode a line of the command's output that does
\* not parse is dropped and the run does not fail; the reported total is the
\* number of lines that parsed, whether or not any line is truncated.
C9_TotalCountsParsedLines ==
    (gpc = "done" /\ IsSome(execute_info)) =>
        /\ status = "ok"
        /\ Len(stdout) = 1
        /\ stdout[1].total = ParsableCount
        /\ Len(stdout[1].lines) = ParsableCount

C9_Witness ==
    /\ gpc = "done"
    /\ IsSome(execute_info)
    /\ ParsableCount >= 2
    /\ ParsableCount < Len(Unwrap(execute_info))
    /\ "truncated_map" \in DOMAIN stdout[1]
    /\ \E k \in 1..Len(stdout[1].lines) : Len(stdout[1].lines[k]) = 4

\* ------------------------------------------------ grep in dynamic mode
\* most items a source yields
MaxItems == 2
\* most snapshots emitted before the final one
MaxSnapshots == 1

\* An insertion that would append the item and cut from the front.
KeepWorst(top, item, cap) ==
    LET all == Append(top, item)
    IN IF IsSome(cap) /\ Len(all) > Unwrap(cap)
       THEN SubSeq(all, Len(all) - Unwrap(cap) + 1, Len(all))
       ELSE all

\* The top-K structure with a scored item inserted: best score first, items
\* of equal score in source order, cut to the K best when a cap is given.
InsertTopK(top, item, cap) ==
    LET Better(e) == e[2] > item[2] \/ (e[2] = item[2] /\ e[1] < item[1])
        all == SelectSeq(top, Better) \o <<item>> \o SelectSeq(top, LAMBDA e : ~Better(e))
    IN IF IsSome(cap) THEN Take(all, Unwrap(cap)) ELSE all

\* An emission that would not look at the cancellation.
MayEmitWhenCancelled == Len(snapshots) < MaxSnapshots

\* Whether the runner may emit a snapshot.
MayEmit == ~cancelled /\ Len(snapshots) < MaxSnapshots

Snapshot == [total |-> dyn_total, top |-> topk]

\* The arguments and the cache a run finds: nothing changes them.
dynArgs == <<subcommand, dyn_input, cmd_dir, no_cache, cache_entry>>

DynInit ==
    /\ FilterOff
    /\ ExecOff
    /\ GrepOff
    /\ dpc = "start"
    /\ subcommand \in {"grep", "forerunner"}
    \* RipGrepForerunner has no input option
    /\ dyn_input \in (IF subcommand = "grep" THEN {None, Some("tempfile")} ELSE {None})
    /\ cmd_dir \in {None, Some("dir")}
    /\ no_cache \in BOOLEAN
    /\ cache_entry \in (IF IsSome(cmd_dir) THEN BOOLEAN ELSE {FALSE})
    /\ number \in {None} \cup {Some(k) : k \in 0..MaxNumber}
    /\ enable_icon = FALSE
    /\ stdout = <<>>
    /\ status = "running"
    /\ lookups = 0
    /\ source = "none"
    /\ child = "none"
    /\ consumed = 0
    /\ inflight = {}
    /\ topk = <<>>
    /\ dyn_total = 0
    /\ snapshots = <<>>
    /\ cancelled = FALSE

\* A lookup made whenever a directory was given.
ConsultsCacheDespiteOverride == dyn_input = None /\ IsSome(cmd_dir)

\* cache_exists(&RG_ARGS, dir) is consulted: an input file was not given, a
\* directory was, and the cache is not overridden.
ConsultsCache == dyn_input = None /\ IsSome(cmd_dir) /\ ~no_cache

\* Grep::dyn_run: choose the source and hand it to the dynamic filter.
DynRun ==
    /\ subcommand = "grep"
    /\ dpc = "start"
    /\ dpc' = "streaming"
    /\ lookups' = IF ConsultsCache THEN lookups + 1 ELSE lookups
    /\ source' = IF IsSome(dyn_input) THEN "file"
                 ELSE IF ConsultsCache /\ cache_entry THEN "cached"
                 ELSE "exec"
    /\ child' = IF source' = "exec" THEN "running" ELSE "none"
    /\ UNCHANGED <<dynArgs, consumed, inflight, topk,
                   dyn_total, snapshots, cancelled, mapleVars, notDyn>>

\* RipGrepForerunner::run consults the cache: it is not overridden and a
\* directory was given.
ForerunnerConsultsCache == ~no_cache /\ IsSome(cmd_dir)

\* RipGrepForerunner::run: answer from the cache, or skip what is no git
\* repository, or run rg to its end and print what it found.
ForerunnerRun ==
    /\ subcommand = "forerunner"
    /\ dpc = "start"
    /\ dpc' = "done"
    /\ lookups' = IF ForerunnerConsultsCache THEN lookups + 1 ELSE lookups
    /\ IF ForerunnerConsultsCache /\ cache_entry
       THEN \* send_response_from_cache(..); return Ok(())
            /\ source' = "cached"
            /\ child' = "none"
            /\ stdout' = <<[response |-> "cache"]>>
            /\ status' = "ok"
       ELSE \/ \* should_skip(): no git repository
               /\ source' = "none"
               /\ child' = "none"
               /\ status' = "ok"
               /\ UNCHANGED stdout
            \/ \* light_cmd.execute(&RG_ARGS)?.print()
               /\ source' = "exec"
               /\ child' = "exited"
               /\ \/ stdout' = <<[response |-> "executed"]>> /\ status' = "ok"
                  \/ stdout' = stdout /\ status' = "error"
    /\ UNCHANGED <<dynArgs, consumed, inflight, topk, dyn_total, snapshots, cancelled,
                   number, enable_icon, notDyn>>

\* The runner reads the next item of the source and hands it to a scoring
\* task.
ReadItem ==
    /\ dpc = "streaming"
    /\ ~cancelled
    /\ consumed < MaxItems
    /\ \E r \in {None} \cup {Some(sc) : sc \in Scores} :
          inflight' = inflight \cup {<<consumed + 1, r>>}
    /\ consumed' = consumed + 1
    /\ UNCHANGED <<dpc, dynArgs, lookups, source, child,
                   topk, dyn_total, snapshots, cancelled, mapleVars, notDyn>>

\* The source is exhausted: the file ends, the process exits.
SourceEnds ==
    /\ dpc = "streaming"
    /\ ~cancelled
    /\ dpc' = "draining"
    /\ child' = IF child = "running" THEN "exited" ELSE child
    /\ UNCHANGED <<dynArgs, lookups, source, consumed,
                   inflight, topk, dyn_total, snapshots, cancelled, mapleVars, notDyn>>

\* A scoring task completes and its result, if a match, is inserted into the
\* top-K; the tasks complete in any order, the insertions are serialized.
FinishTask(t) ==
    /\ t \in inflight
    /\ ~cancelled
    /\ inflight' = inflight \ {t}
    /\ IF IsSome(t[2])
       THEN /\ dyn_total' = dyn_total + 1
            /\ topk' = InsertTopK(topk, <<t[1], Unwrap(t[2])>>, number)
       ELSE UNCHANGED <<dyn_total, topk>>
    /\ UNCHANGED <<dpc, dynArgs, lookups, source, child,
                   consumed, snapshots, cancelled, mapleVars, notDyn>>

\* The runner emits a snapshot of what it knows.
EmitSnapshot ==
    /\ dpc \in {"streaming", "draining"}
    /\ MayEmit
    /\ snapshots' = Append(snapshots, Snapshot)
    /\ UNCHANGED <<dpc, dynArgs, lookups, source, child,
                   consumed, inflight, topk, dyn_total, cancelled, mapleVars, notDyn>>

\* The source is exhausted and every task is done: the last snapshot.
Complete ==
    /\ dpc = "draining"
    /\ ~cancelled
    /\ inflight = {}
    /\ dpc' = "done"
    /\ snapshots' = Append(snapshots, Snapshot)
    /\ status' = "ok"
    /\ UNCHANGED <<dynArgs, lookups, source, child,
                   consumed, inflight, topk, dyn_total, cancelled, stdout, number,
                   enable_icon, notDyn>>

\* The runner is cancelled.
Cancel ==
    /\ dpc \in {"streaming", "draining"}
    /\ ~cancelled
    /\ cancelled' = TRUE
    /\ UNCHANGED <<dpc, dynArgs, lookups, source, child,
                   consumed, inflight, topk, dyn_total, snapshots, mapleVars, notDyn>>

\* Cancellation reaches the source: a live process is terminated.
TerminateSource ==
    /\ cancelled
    /\ child = "running"
    /\ child' = "killed"
    /\ UNCHANGED <<dpc, dynArgs, lookups, source,
                   consumed, inflight, topk, dyn_total, snapshots, cancelled, mapleVars,
                   notDyn>>

\* Cancellation reaches the tasks in flight: their results are discarded.
DiscardTasks ==
    /\ cancelled
    /\ inflight # {}
    /\ inflight' = {}
    /\ UNCHANGED <<dpc, dynArgs, lookups, source, child,
                   consumed, topk, dyn_total, snapshots, cancelled, mapleVars, notDyn>>

DynTasks == {<<i, r>> : i \in 1..MaxItems, r \in {None} \cup {Some(sc) : sc \in Scores}}

DynNext ==
    \/ DynRun
    \/ ForerunnerRun
    \/ ReadItem
    \/ SourceEnds
    \/ \E t \in DynTasks : FinishTask(t)
    \/ EmitSnapshot
    \/ Complete
    \/ Cancel
    \/ TerminateSource
    \/ DiscardTasks

SpecDyn == DynInit /\ [][DynNext]_vars

\* The runner's steps are taken: a cancelled runner tears its source down.
FairSpecDyn ==
    /\ SpecDyn
    /\ WF_vars(TerminateSource)
    /\ WF_vars(DiscardTasks)

\* Snapshot `later` is no worse than snapshot `earlier`.
NoWorse(earlier, later) ==
    /\ later.total >= earlier.total
    /\ Len(later.top) >= Len(earlier.top)
    /\ \A p \in 1..Len(earlier.top) : later.top[p][2] >= earlier.top[p][2]

\* C7: across the snapshots emitted in dynamic mode the total never
\* decreases, and each position of a later top-K scores at least what that
\* position scored in any earlier top-K.
C7_SnapshotsImprove ==
    \A i \in 1..Len(snapshots) : \A j \in i..Len(snapshots) :
        NoWorse(snapshots[i], snapshots[j])

C7_Witness ==
    /\ Len(snapshots) >= 2
    /\ IsSome(number)
    /\ snapshots[2].total > Unwrap(number)
    /\ snapshots[1].top # <<>>
    /\ snapshots[2].top[1][2] > snapshots[1].top[1][2]

\* C8: once the runner is cancelled no snapshot is emitted and nothing more
\* is read from the source, the results of the tasks in flight are not
\* inserted, and a live process is eventually terminated.
C8_CancellationStopsTheRunner ==
    /\ [][cancelled => /\ snapshots' = snapshots
                       /\ consumed' = consumed
                       /\ topk' = topk
                       /\ dyn_total' = dyn_total]_vars
    /\ (cancelled /\ child = "running") ~> (child = "killed")

C8_Witness ==
    /\ cancelled
    /\ child = "killed"
    /\ inflight # {}
    /\ Len(snapshots) >= 1

\* The rg process was spawned.
Spawned == child # "none"

\* C11: rg is spawned only when no input file was given and no directory was
\* given, or the cache is overridden, or the lookup for (RG_ARGS, directory)
\* fails; with the override the cache is never consulted; a lookup that
\* succeeds makes the cached file the source and spawns no process.
C11_SpawnOnlyWithoutCacheHit ==
    /\ Spawned =>
          /\ dyn_input = None
          /\ cmd_dir = None \/ no_cache \/ ~cache_entry
    /\ no_cache => lookups = 0
    /\ (lookups > 0 /\ cache_entry) => (source = "cached" /\ ~Spawned)

C11_Witness ==
    /\ subcommand = "grep"
    /\ no_cache
    /\ cache_entry
    /\ lookups = 0
    /\ source = "exec"
    /\ child = "running"

====
